---- MODULE Spec2Model ----
(***************************************************************************)
(* The diary API of src/api: register_device, create_diary_entry,          *)
(* get_diary_entries and update_diary_entry over the two tables of         *)
(* models.py.  A handler is split at its round trips to the store, so that *)
(* two requests can interleave between a lookup and the commit after it.   *)
(*                                                                         *)
(* An Optional value is None (<<>>) or Some(v) (<<v>>).                    *)
(***************************************************************************)
EXTENDS Integers, Sequences, FiniteSets, TLC

VARIABLES users, entries, now, pc, req, loc, out, sessions

vars == <<users, entries, now, pc, req, loc, out, sessions>>

\* The number of diary writes (inserts and UPDATEs) a behaviour may hold.
MaxClock == 2

None == <<>>
Some(v) == <<v>>

Procs == {"p1", "p2"}
Devices == {"devA", "devB"}
Uuids == {"u1", "u2"}

(***************************************************************************)
(* models.py                                                               *)
(***************************************************************************)
FieldNames ==
    {"entry_date", "mood_score", "mood_percentage", "activities", "notes"}

\* The content columns declared nullable=False.
RequiredFields == {"entry_date", "mood_score", "mood_percentage"}

\* A generated primary key: the next value of the table's sequence.
NextId(ids) == IF ids = {} THEN 1 ELSE 1 + CHOOSE m \in ids : \A i \in ids : i <= m

\* Faulty variant of UserInsertAllowed: the column without its unique=True.
UserInsertAllowed_NoUnique(rows, d) == TRUE

\* users.device_id is unique=True: the store refuses a second row for d.
UserInsertAllowed(rows, d) == \A u \in rows : u.device_id # d

\* Faulty variant of EntryRowAllowed: the content columns nullable.
EntryRowAllowed_Nullable(userRows, others, row) ==
    /\ \A e \in others : e.entry_id # row.entry_id
    /\ \E u \in userRows : u.user_id = row.user_id

\* What the store checks of a diary_entries row: the primary key, the foreign
\* key to users and the NOT NULL columns.  No constraint spans
\* (user_id, entry_uuid).
EntryRowAllowed(userRows, others, row) ==
    /\ \A e \in others : e.entry_id # row.entry_id
    /\ \E u \in userRows : u.user_id = row.user_id
    /\ \A f \in RequiredFields : row[f] # None

UserRow(id, d) == [user_id |-> id, device_id |-> d]

\* Faulty variant of EntryRow: the activities stored latest first.
EntryRow_ActivitiesReversed(id, uid, uuid, c, t) ==
    [entry_id |-> id, user_id |-> uid, entry_uuid |-> uuid,
     entry_date |-> c.entry_date, mood_score |-> c.mood_score,
     mood_percentage |-> c.mood_percentage,
     activities |-> IF c.activities = <<>> THEN <<>>
                    ELSE <<[i \in 1..Len(c.activities[1]) |->
                              c.activities[1][Len(c.activities[1]) + 1 - i]]>>,
     notes |-> c.notes, updated_at |-> t]

EntryRow(id, uid, uuid, c, t) ==
    [entry_id |-> id, user_id |-> uid, entry_uuid |-> uuid,
     entry_date |-> c.entry_date, mood_score |-> c.mood_score,
     mood_percentage |-> c.mood_percentage, activities |-> c.activities,
     notes |-> c.notes, updated_at |-> t]

(***************************************************************************)
(* schemas.py and the requests                                             *)
(***************************************************************************)
ContentA ==
    [entry_date |-> Some(1), mood_score |-> Some(3), mood_percentage |-> Some(40),
     activities |-> Some(<<"run", "meditate">>), notes |-> Some("")]

ContentB ==
    [entry_date |-> Some(2), mood_score |-> Some(4), mood_percentage |-> Some(60),
     activities |-> Some(<<>>), notes |-> Some("calm")]

\* activities and notes sent as null, which DiaryEntryCreate accepts.
ContentC ==
    [entry_date |-> Some(2), mood_score |-> Some(3), mood_percentage |-> Some(60),
     activities |-> None, notes |-> None]

\* Every field null.
ContentNull == [f \in FieldNames |-> None]

Restrict(c, S) == [f \in S |-> c[f]]

RegisterReq(d) == [op |-> "register", device_id |-> d]
CreateReq(d, uuid, c) ==
    [op |-> "create", device_id |-> d, entry_uuid |-> uuid, fields |-> c]
ListReq(d) == [op |-> "list", device_id |-> d]
\* The body of an update (entry_data) is drawn where the handler first reads
\* it, at the commit; DiaryEntryUpdate accepts every body, so no step before
\* that depends on it.
UpdateReq(d, uuid) ==
    [op |-> "update", device_id |-> d, entry_uuid |-> uuid, fields |-> <<>>]

\* What the request models accept: a device_id that is present (any string),
\* and for DiaryEntryCreate the three fields that are not Optional.
Validate(r) ==
    /\ r.device_id # None
    /\ r.op = "create" => \A f \in RequiredFields : r.fields[f] # None

NoReq == [op |-> "none"]
NoLoc == [user_id |-> 0, db_entry |-> None]
NoOut == [proc |-> "", req |-> NoReq, resp |-> [status |-> 0]]

Ok(msg, data) == [status |-> 200, message |-> msg, cause |-> "", data |-> data]
Err(code, msg, cause) == [status |-> code, message |-> msg, cause |-> cause, data |-> None]

Init ==
    /\ users = {}
    /\ entries = {}
    /\ now = 0
    /\ pc = [p \in Procs |-> "idle"]
    /\ req = [p \in Procs |-> NoReq]
    /\ loc = [p \in Procs |-> NoLoc]
    /\ out = NoOut
    /\ sessions = {}

\* Faulty variant of Answer: the session closed at the end of the handler's
\* body instead of in a finally clause, so that a raised HTTPException
\* leaves it open.
Answer_CloseOnReturn(p, rq, r) ==
    /\ pc' = [pc EXCEPT ![p] = "idle"]
    /\ out' = [proc |-> p, req |-> rq, resp |-> r]
    /\ req' = [req EXCEPT ![p] = NoReq]
    /\ loc' = [loc EXCEPT ![p] = NoLoc]
    /\ sessions' = IF r.status = 200 THEN sessions \ {p} ELSE sessions

\* The handler returns or raises: the response leaves and get_db's finally
\* clause closes the session.
Answer(p, rq, r) ==
    /\ pc' = [pc EXCEPT ![p] = "idle"]
    /\ sessions' = sessions \ {p}
    /\ out' = [proc |-> p, req |-> rq, resp |-> r]
    /\ req' = [req EXCEPT ![p] = NoReq]
    /\ loc' = [loc EXCEPT ![p] = NoLoc]

Finish(p, r) == Answer(p, req[p], r)

\* The handler goes on to its next call of the store; nothing is answered yet.
Goto(p, label) ==
    /\ pc' = [pc EXCEPT ![p] = label]
    /\ out' = NoOut
    /\ UNCHANGED <<req, sessions>>

Entry(op) ==
    CASE op = "register" -> "reg_lookup"
      [] op = "create" -> "cr_user"
      [] op = "list" -> "ls_user"
      [] op = "update" -> "up_user"

UsersByDevice(d) == {u \in users : u.device_id = d}

DeviceOf(p) == req[p].device_id[1]

(***************************************************************************)
(* register_device                                                         *)
(***************************************************************************)
\* Faulty variant of RegisterLookup: the lookup of an existing device dropped.
RegisterLookup_NoLookup(p) ==
    /\ pc[p] = "reg_lookup"
    /\ UNCHANGED <<users, entries, now, loc>>
    /\ Goto(p, "reg_insert")

RegisterLookup(p) ==
    /\ pc[p] = "reg_lookup"
    /\ UNCHANGED <<users, entries, now>>
    /\ IF UsersByDevice(DeviceOf(p)) # {}
       THEN \E u \in UsersByDevice(DeviceOf(p)) :
                Finish(p, Ok("Device already exists",
                             [user_id |-> u.user_id, device_id |-> u.device_id]))
       ELSE Goto(p, "reg_insert") /\ UNCHANGED loc

RegisterInsert(p) ==
    /\ pc[p] = "reg_insert"
    /\ UNCHANGED <<entries, now>>
    /\ LET row == UserRow(NextId({u.user_id : u \in users}), DeviceOf(p)) IN
       IF UserInsertAllowed(users, DeviceOf(p))
       THEN /\ users' = users \cup {row}
            /\ Finish(p, Ok("Device registered successfully",
                            [user_id |-> row.user_id, device_id |-> row.device_id]))
       ELSE /\ UNCHANGED users
            /\ Finish(p, Err(500, "Registration failed", "UniqueViolation"))

(***************************************************************************)
(* create_diary_entry                                                      *)
(***************************************************************************)
\* Faulty variant of CreateFindUser: an unknown device is registered on the
\* way (get-or-create).
CreateFindUser_AutoRegister(p) ==
    /\ pc[p] = "cr_user"
    /\ UNCHANGED <<entries, now>>
    /\ LET found == {u \in users : u.device_id = req[p].device_id[1]}
           row == UserRow(NextId({u.user_id : u \in users}), req[p].device_id[1])
       IN
       IF found = {}
       THEN /\ users' = users \cup {row}
            /\ loc' = [loc EXCEPT ![p].user_id = row.user_id]
            /\ Goto(p, "cr_check")
       ELSE /\ UNCHANGED users
            /\ \E u \in found :
                   /\ loc' = [loc EXCEPT ![p].user_id = u.user_id]
                   /\ Goto(p, "cr_check")

CreateFindUser(p) ==
    /\ pc[p] = "cr_user"
    /\ UNCHANGED <<users, entries, now>>
    /\ IF UsersByDevice(DeviceOf(p)) = {}
       THEN Finish(p, Err(404, "Device not registered", ""))
       ELSE \E u \in UsersByDevice(DeviceOf(p)) :
                /\ loc' = [loc EXCEPT ![p].user_id = u.user_id]
                /\ Goto(p, "cr_check")

\* Faulty variant of EntriesByUuid: the filter on user_id left out.
EntriesByUuid_AnyUser(uid, uuid) == {e \in entries : e.entry_uuid = uuid}

EntriesByUuid(uid, uuid) ==
    {e \in entries : e.user_id = uid /\ e.entry_uuid = uuid}

\* Faulty variant of CreateCheckDuplicate: the duplicate check left out.
CreateCheckDuplicate_NoCheck(p) ==
    /\ pc[p] = "cr_check"
    /\ UNCHANGED <<users, entries, now, loc>>
    /\ Goto(p, "cr_insert")

CreateCheckDuplicate(p) ==
    /\ pc[p] = "cr_check"
    /\ UNCHANGED <<users, entries, now>>
    /\ IF EntriesByUuid(loc[p].user_id, req[p].entry_uuid) # {}
       THEN Finish(p, Err(409, "Diary entry already exists", ""))
       ELSE Goto(p, "cr_insert") /\ UNCHANGED loc

CreateInsert(p) ==
    /\ pc[p] = "cr_insert"
    /\ UNCHANGED users
    /\ LET row == EntryRow(NextId({e.entry_id : e \in entries}), loc[p].user_id,
                           req[p].entry_uuid, req[p].fields, now) IN
       IF EntryRowAllowed(users, entries, row)
       THEN /\ entries' = entries \cup {row}
            /\ now' = now + 1
            /\ Finish(p, Ok("Diary entry uploaded successfully",
                            [entry_id |-> row.entry_id, entry_uuid |-> row.entry_uuid]))
       ELSE /\ UNCHANGED <<entries, now>>
            /\ Finish(p, Err(500, "Upload failed", "IntegrityError"))

(***************************************************************************)
(* get_diary_entries                                                       *)
(***************************************************************************)
ListFindUser(p) ==
    /\ pc[p] = "ls_user"
    /\ UNCHANGED <<users, entries, now>>
    /\ IF UsersByDevice(DeviceOf(p)) = {}
       THEN Finish(p, Err(404, "Device not registered", ""))
       ELSE \E u \in UsersByDevice(DeviceOf(p)) :
                /\ loc' = [loc EXCEPT ![p].user_id = u.user_id]
                /\ Goto(p, "ls_query")

\* Faulty variant of EntriesOfUser: the filter on user_id left out.
EntriesOfUser_All(uid) == entries

EntriesOfUser(uid) == {e \in entries : e.user_id = uid}

\* Faulty variant of OrderedByDateDesc: ascending order.
OrderedByDateDesc_Asc(rows) ==
    LET n == Cardinality(rows) IN
    {s \in [1..n -> rows] :
        /\ \A i, j \in 1..n : i # j => s[i] # s[j]
        /\ \A i \in 1..n : i < n => s[i].entry_date[1] <= s[i + 1].entry_date[1]}

\* ORDER BY entry_date DESC: every arrangement of the rows with the dates
\* non-increasing; the store is free in the order of rows of equal date.
OrderedByDateDesc(rows) ==
    LET n == Cardinality(rows) IN
    {s \in [1..n -> rows] :
        /\ \A i, j \in 1..n : i # j => s[i] # s[j]
        /\ \A i \in 1..n : i < n => s[i].entry_date[1] >= s[i + 1].entry_date[1]}

\* Faulty variant of ListQuery: a user without entries answered as an error.
ListQuery_EmptyIsError(p) ==
    /\ pc[p] = "ls_query"
    /\ UNCHANGED <<users, entries, now>>
    /\ IF {e \in entries : e.user_id = loc[p].user_id} = {}
       THEN Finish(p, Err(404, "No diary entries", ""))
       ELSE \E s \in OrderedByDateDesc({e \in entries : e.user_id = loc[p].user_id}) :
                Finish(p, Ok("", s))

ListQuery(p) ==
    /\ pc[p] = "ls_query"
    /\ UNCHANGED <<users, entries, now>>
    /\ \E s \in OrderedByDateDesc(EntriesOfUser(loc[p].user_id)) :
           Finish(p, Ok("", s))

(***************************************************************************)
(* update_diary_entry                                                      *)
(***************************************************************************)
UpdateFindUser(p) ==
    /\ pc[p] = "up_user"
    /\ UNCHANGED <<users, entries, now>>
    /\ IF UsersByDevice(DeviceOf(p)) = {}
       THEN Finish(p, Err(404, "Device not registered", ""))
       ELSE \E u \in UsersByDevice(DeviceOf(p)) :
                /\ loc' = [loc EXCEPT ![p].user_id = u.user_id]
                /\ Goto(p, "up_find")

UpdateFindEntry(p) ==
    /\ pc[p] = "up_find"
    /\ UNCHANGED <<users, entries, now>>
    /\ IF EntriesByUuid(loc[p].user_id, req[p].entry_uuid) = {}
       THEN Finish(p, Err(404, "Diary entry not found", ""))
       ELSE \E e \in EntriesByUuid(loc[p].user_id, req[p].entry_uuid) :
                /\ loc' = [loc EXCEPT ![p].db_entry = Some(e)]
                /\ Goto(p, "up_commit")

\* setattr for each field of entry_data.dict(exclude_unset=True).  The session
\* flushes the attributes whose value differs from the one it loaded.
ChangedFields(loaded, fields) == {f \in DOMAIN fields : fields[f] # loaded[f]}

\* Faulty variant of ApplyUpdate: a full replace, every field absent from the
\* body written as None (the body dumped without exclude_unset).
ApplyUpdate_FullReplace(rows, loaded, fields, t) ==
    {IF e.entry_id = loaded.entry_id
     THEN [c \in DOMAIN e |->
              IF c \in DOMAIN fields THEN fields[c]
              ELSE IF c \in FieldNames THEN None
              ELSE IF c = "updated_at" THEN t ELSE e[c]]
     ELSE e : e \in rows}

\* Faulty variant of ApplyUpdate: updated_at declared without its onupdate.
ApplyUpdate_NoOnUpdate(rows, loaded, fields, t) ==
    {IF e.entry_id = loaded.entry_id
     THEN [c \in DOMAIN e |->
              IF c \in DOMAIN fields /\ fields[c] # loaded[c] THEN fields[c] ELSE e[c]]
     ELSE e : e \in rows}

\* Faulty variant of ApplyUpdate: the row replaced by a new row (delete and
\* insert), which takes the next entry_id.
ApplyUpdate_Reinsert(rows, loaded, fields, t) ==
    {IF e.entry_id = loaded.entry_id
     THEN [c \in DOMAIN e |->
              IF c \in DOMAIN fields /\ fields[c] # loaded[c] THEN fields[c]
              ELSE IF c = "updated_at" THEN t
              ELSE IF c = "entry_id" THEN NextId({x.entry_id : x \in rows})
              ELSE e[c]]
     ELSE e : e \in rows}

\* The UPDATE of the loaded row: the changed columns, and updated_at by its
\* onupdate default.
ApplyUpdate(rows, loaded, fields, t) ==
    LET S == ChangedFields(loaded, fields) IN
    {IF e.entry_id = loaded.entry_id
     THEN [c \in DOMAIN e |->
              IF c \in S THEN fields[c] ELSE IF c = "updated_at" THEN t ELSE e[c]]
     ELSE e : e \in rows}

UpdateCommit(p, payloads) ==
    /\ pc[p] = "up_commit"
    /\ UNCHANGED users
    /\ \E fields \in payloads :
       LET loaded == loc[p].db_entry[1]
           rq == [req[p] EXCEPT !.fields = fields]
           after == ApplyUpdate(entries, loaded, fields, now)
           done == Ok("Diary entry updated successfully",
                      [entry_id |-> loaded.entry_id, entry_uuid |-> loaded.entry_uuid])
       IN
       IF ChangedFields(loaded, fields) = {}
       THEN UNCHANGED <<entries, now>> /\ Answer(p, rq, done)
       ELSE IF \A e \in after : EntryRowAllowed(users, after \ {e}, e)
            THEN /\ entries' = after
                 /\ now' = now + 1
                 /\ Answer(p, rq, done)
            ELSE /\ UNCHANGED <<entries, now>>
                 /\ Answer(p, rq, Err(500, "Update failed", "IntegrityError"))

(***************************************************************************)
(* The except clauses: a call of the store raises, the handler rolls back  *)
(* and answers 500.  Nothing was flushed, so no row changes.               *)
(***************************************************************************)
FailurePrefix(op) ==
    CASE op = "register" -> "Registration failed"
      [] op = "create" -> "Upload failed"
      [] op = "list" -> "Failed to retrieve diary entries"
      [] op = "update" -> "Update failed"

\* Faulty variant of StoreFault: no rollback, on a session that commits what
\* it has flushed: a failure after the INSERT of create leaves the row.
StoreFault_NoRollback(p) ==
    /\ pc[p] # "idle"
    /\ UNCHANGED <<users, now>>
    /\ entries' =
           IF pc[p] = "cr_insert"
           THEN entries \cup {EntryRow(NextId({e.entry_id : e \in entries}), loc[p].user_id,
                                       req[p].entry_uuid, req[p].fields, now)}
           ELSE entries
    /\ Finish(p, Err(500, FailurePrefix(req[p].op), "OperationalError"))

StoreFault(p) ==
    /\ pc[p] # "idle"
    /\ UNCHANGED <<users, entries, now>>
    /\ Finish(p, Err(500, FailurePrefix(req[p].op), "OperationalError"))

(***************************************************************************)
(* A request arrives: it is validated against its schema, get_db opens a   *)
(* session for it and the handler starts.                                  *)
(***************************************************************************)
\* The bound of the model: a request that may write a diary row is received
\* only while the writes done and in flight stay below MaxClock.
WriteOps == {"create", "update"}

WritesInFlight == Cardinality({q \in Procs : req[q].op \in WriteOps})

Receive(p, r) ==
    /\ pc[p] = "idle"
    /\ r.op \in WriteOps => now + WritesInFlight < MaxClock
    /\ UNCHANGED <<users, entries, now, loc>>
    /\ IF Validate(r)
       THEN /\ pc' = [pc EXCEPT ![p] = Entry(r.op)]
            /\ req' = [req EXCEPT ![p] = r]
            /\ sessions' = sessions \cup {p}
            /\ out' = NoOut
       ELSE /\ out' = [proc |-> p, req |-> r, resp |-> Err(422, "Validation error", "")]
            /\ UNCHANGED <<pc, req, sessions>>

Step(p, payloads) ==
    \/ RegisterLookup(p)
    \/ RegisterInsert(p)
    \/ CreateFindUser(p)
    \/ CreateCheckDuplicate(p)
    \/ CreateInsert(p)
    \/ ListFindUser(p)
    \/ ListQuery(p)
    \/ UpdateFindUser(p)
    \/ UpdateFindEntry(p)
    \/ UpdateCommit(p, payloads)

\* The device_id of a request: missing, or one of the strings devs.
DeviceInputs(devs) == {None} \cup {Some(d) : d \in devs}

Requests(devs, contents) ==
    {RegisterReq(d) : d \in DeviceInputs(devs)}
    \cup {CreateReq(d, u, c) : d \in DeviceInputs(devs), u \in Uuids, c \in contents}
    \cup {ListReq(d) : d \in DeviceInputs(devs)}
    \cup {UpdateReq(d, u) : d \in DeviceInputs(devs), u \in Uuids}

\* The concurrent specification: two requests in flight, a store that may
\* fail, one create body and two update bodies.
ConcContents == {ContentA}
ConcPayloads == {Restrict(ContentB, {"notes"}), Restrict(ContentB, {"entry_date", "mood_score"})}

Next ==
    \E p \in Procs :
        \/ \E r \in Requests(Devices, ConcContents) : Receive(p, r)
        \/ Step(p, ConcPayloads)
        \/ StoreFault(p)

Spec == Init /\ [][Next]_vars

\* The concurrent specification for one device, with the server's
\* scheduling: a handler that has started keeps running, so each step it can
\* take is taken in the end.  Nothing makes a client send a request and
\* nothing makes the store fail.
FairDevices == {"devA"}

FairNext ==
    \E p \in Procs :
        \/ \E r \in Requests(FairDevices, ConcContents) : Receive(p, r)
        \/ Step(p, ConcPayloads)
        \/ StoreFault(p)

FairSpec ==
    Init /\ [][FairNext]_vars /\ \A p \in Procs : WF_vars(Step(p, ConcPayloads))

\* The sequential specification: one client that waits for each answer before
\* its next request, and a store that does not fail.  The empty string is among
\* the device_ids, and the update bodies are
\* every subset of the five fields with a value each, and each field alone as
\* an explicit null.
SeqDevices == {"", "devA"}
SeqContents == {ContentA, ContentB, ContentC, ContentNull}
SeqPayloads ==
    {Restrict(ContentB, S) : S \in SUBSET FieldNames}
    \cup {Restrict(ContentNull, {f}) : f \in FieldNames}

SeqNext ==
    \/ \E r \in Requests(SeqDevices, SeqContents) : Receive("p1", r)
    \/ Step("p1", SeqPayloads)

SeqSpec == Init /\ [][SeqNext]_vars

(***************************************************************************)
(* The claims.  `out` is the exchange a step has just answered, so a       *)
(* formula over out' and the unprimed tables compares the answer of a call *)
(* with the rows before and after its last step.                           *)
(***************************************************************************)
RowsOfDevice(rows, d) == {u \in rows : u.device_id = d}

RowsOfKey(rows, uid, uuid) == {e \in rows : e.user_id = uid /\ e.entry_uuid = uuid}

ContentOf(e) == [f \in FieldNames |-> e[f]]

\* C1: a register call for a device_id succeeds; it reports "registered" and
\* inserts exactly one User row when no row held that device_id, and otherwise
\* reports "already exists" and inserts nothing; either way it returns the
\* user_id of the one row of that device_id, and no User row is ever changed
\* or removed, so every later call returns the same user_id.
C1_RegisterIdempotent ==
    [][ (out'.req.op = "register" /\ out'.resp.status # 422) =>
            LET d == out'.req.device_id[1]
                before == RowsOfDevice(users, d)
                after == RowsOfDevice(users', d)
            IN
            /\ out'.resp.status = 200
            /\ users \subseteq users'
            /\ Cardinality(after) = 1
            /\ \A u \in after :
                   out'.resp.data = [user_id |-> u.user_id, device_id |-> d]
            /\ IF before = {}
               THEN /\ out'.resp.message = "Device registered successfully"
                    /\ Cardinality(users') = Cardinality(users) + 1
               ELSE /\ out'.resp.message = "Device already exists"
                    /\ users' = users ]_vars

\* C1 witness: a second register of a device is answered "already exists"
\* with the user_id of the row the first one inserted, beside another user.
C1_Witness ==
    /\ out.req.op = "register"
    /\ out.resp.status = 200
    /\ out.resp.message = "Device already exists"
    /\ Cardinality(users) = 2
    /\ \E u \in users : out.resp.data = [user_id |-> u.user_id, device_id |-> u.device_id]

\* C2: a create for a registered device whose user already has an entry of
\* that entry_uuid fails with 409 and leaves the diary rows as they were,
\* whatever its body; a create whose user has none succeeds and inserts
\* exactly one row, holding the body, the user and the entry_uuid.
C2_DuplicateCreateRejected ==
    [][ (out'.req.op = "create" /\ out'.resp.status # 422
         /\ RowsOfDevice(users, out'.req.device_id[1]) # {}) =>
            \A u \in RowsOfDevice(users, out'.req.device_id[1]) :
                IF RowsOfKey(entries, u.user_id, out'.req.entry_uuid) # {}
                THEN /\ out'.resp.status = 409
                     /\ out'.resp.message = "Diary entry already exists"
                     /\ entries' = entries
                ELSE /\ out'.resp.status = 200
                     /\ \E row \in entries' :
                            /\ row \notin entries
                            /\ entries' = entries \cup {row}
                            /\ row.user_id = u.user_id
                            /\ row.entry_uuid = out'.req.entry_uuid
                            /\ ContentOf(row) = out'.req.fields
                            /\ out'.resp.data = [entry_id |-> row.entry_id,
                                                 entry_uuid |-> row.entry_uuid] ]_vars

\* C2 witness: a second create with the same (device_id, entry_uuid) and a
\* different body was answered 409, and the one stored row still holds the
\* first body.
C2_Witness ==
    /\ out.req.op = "create"
    /\ out.resp.status = 409
    /\ \E u \in RowsOfDevice(users, out.req.device_id[1]) :
           /\ Cardinality(RowsOfKey(entries, u.user_id, out.req.entry_uuid)) = 1
           /\ \A e \in RowsOfKey(entries, u.user_id, out.req.entry_uuid) :
                  ContentOf(e) # out.req.fields

C4_PartialUpdateFrame ==
    [][ (out'.req.op = "update" /\ out'.resp.status = 200) =>
            \E old \in entries : \E new \in entries' :
                /\ old.entry_id = out'.resp.data.entry_id
                /\ new.entry_id = old.entry_id
                /\ \A f \in FieldNames :
                       IF f \in DOMAIN out'.req.fields
                       THEN new[f] = out'.req.fields[f]
                       ELSE new[f] = old[f] ]_vars

\* C4 witness: an update of notes alone succeeded on an entry whose other
\* four fields differ from the values an update would have supplied.
C4_Witness ==
    /\ out.req.op = "update"
    /\ out.resp.status = 200
    /\ DOMAIN out.req.fields = {"notes"}
    /\ \E e \in entries :
           /\ e.entry_id = out.resp.data.entry_id
           /\ e.notes = ContentB.notes
           /\ e.updated_at > 0
           /\ \A f \in FieldNames \ {"notes"} : e[f] # ContentB[f]

\* C5: a list for a registered device returns each DiaryEntry row of that
\* device's user exactly once and no other row, with entry_date
\* non-increasing along the result.
C5_ListOwnedAndOrdered ==
    (out.req.op = "list" /\ out.resp.status = 200) =>
        LET s == out.resp.data
            owned == {e \in entries :
                         \E u \in RowsOfDevice(users, out.req.device_id[1]) :
                             e.user_id = u.user_id}
        IN
        /\ {s[i] : i \in DOMAIN s} = owned
        /\ Len(s) = Cardinality(owned)
        /\ \A i \in DOMAIN s :
               i < Len(s) => s[i].entry_date[1] >= s[i + 1].entry_date[1]

\* C5 witness: the entry created second carries the later date and is listed
\* first.
C5_Witness ==
    /\ out.req.op = "list"
    /\ out.resp.status = 200
    /\ Len(out.resp.data) = 2
    /\ out.resp.data[1].entry_id > out.resp.data[2].entry_id
    /\ out.resp.data[1].entry_date[1] > out.resp.data[2].entry_date[1]

\* C6: a register call that the store itself did not fail is answered 200
\* with the user_id of the row of its device_id; in particular the loser of a
\* race between two first registrations of one device_id is answered
\* "already exists", not with the store's uniqueness violation.
C6_RaceLoserAlreadyExists ==
    (out.req.op = "register" /\ out.resp.status # 422
     /\ out.resp.cause # "OperationalError") =>
        /\ out.resp.status = 200
        /\ \E u \in RowsOfDevice(users, out.req.device_id[1]) :
               out.resp.data = [user_id |-> u.user_id, device_id |-> u.device_id]

\* C7: no two DiaryEntry rows share a (user_id, entry_uuid) pair.
C7_EntryUuidUniquePerUser ==
    \A e1, e2 \in entries :
        (e1.user_id = e2.user_id /\ e1.entry_uuid = e2.entry_uuid) => e1 = e2

\* C8: no two User rows share a device_id.
C8_DeviceIdUnique ==
    \A u1, u2 \in users : u1.device_id = u2.device_id => u1 = u2

\* C8 witness: the store has refused the insert of a second row for a
\* device_id that two racing registrations both found absent.
C8_Witness ==
    /\ out.req.op = "register"
    /\ out.resp.cause = "UniqueViolation"
    /\ RowsOfDevice(users, out.req.device_id[1]) # {}

\* C9: an update for a device_id with no User row is answered 404 "Device not
\* registered"; an update for a registered device whose user has no entry of
\* the entry_uuid is answered 404 "Diary entry not found", also when another
\* user has one; no step of either changes a row.
C9_UpdateNotFound ==
    [][ /\ (out'.req.op = "update" /\ out'.resp.status # 422) =>
               IF RowsOfDevice(users, out'.req.device_id[1]) = {}
               THEN /\ out'.resp.status = 404
                    /\ out'.resp.message = "Device not registered"
                    /\ users' = users /\ entries' = entries
               ELSE \A u \in RowsOfDevice(users, out'.req.device_id[1]) :
                        RowsOfKey(entries, u.user_id, out'.req.entry_uuid) = {} =>
                            /\ out'.resp.status = 404
                            /\ out'.resp.message = "Diary entry not found"
                            /\ users' = users /\ entries' = entries
        /\ \A p \in Procs :
               (req[p].op = "update" /\ pc'[p] # pc[p] /\ out' = NoOut) =>
                   users' = users /\ entries' = entries ]_vars

\* C9 witness: an update was answered "Diary entry not found" although
\* another user owns an entry of that entry_uuid.
C9_Witness ==
    /\ out.req.op = "update"
    /\ out.resp.status = 404
    /\ out.resp.message = "Diary entry not found"
    /\ \E e \in entries : e.entry_uuid = out.req.entry_uuid

\* C10: a register with the empty string as device_id is answered as an
\* invalid request (422), and no User row has an empty device_id.
C10_EmptyDeviceRejected ==
    /\ \A u \in users : u.device_id # ""
    /\ (out.req.op = "register" /\ out.req.device_id = Some("")) =>
           out.resp.status = 422

\* C11 as the specification states it: every successful update leaves the
\* updated_at of its row strictly later than before, the update with an empty
\* body included, which leaves the five content fields unchanged.
C11_EveryUpdateAdvances ==
    [][ (out'.req.op = "update" /\ out'.resp.status = 200) =>
            \E old \in entries : \E new \in entries' :
                /\ old.entry_id = out'.resp.data.entry_id
                /\ new.entry_id = old.entry_id
                /\ new.updated_at > old.updated_at
                /\ DOMAIN out'.req.fields = {} => ContentOf(new) = ContentOf(old) ]_vars

\* C11: a successful update leaves the updated_at of its row strictly later
\* than before when its body changes the value of at least one field; when it
\* changes none (an empty body, or only values the row already has) it still
\* succeeds and leaves the row as it was, updated_at included.
C11_UpdatedAtAdvancesOnChange ==
    [][ (out'.req.op = "update" /\ out'.resp.status = 200) =>
            \E old \in entries : \E new \in entries' :
                /\ old.entry_id = out'.resp.data.entry_id
                /\ new.entry_id = old.entry_id
                /\ IF \E f \in DOMAIN out'.req.fields : out'.req.fields[f] # old[f]
                   THEN new.updated_at > old.updated_at
                   ELSE new = old ]_vars

\* C11 witness: an update with an empty body succeeded on an entry that still
\* has the updated_at of its creation, the only write so far.
C11_Witness ==
    /\ out.req.op = "update"
    /\ out.resp.status = 200
    /\ DOMAIN out.req.fields = {}
    /\ now = 1
    /\ \E e \in entries :
           /\ e.entry_id = out.resp.data.entry_id
           /\ e.updated_at = 0

\* C12: list only reads: no step of a list call, whatever its device_id and
\* whatever its answer, changes the User rows or the DiaryEntry rows; and a
\* list for a registered device whose user has no entry, when the store does
\* not fail, is answered 200 with the empty sequence.
C12_ListPureRead ==
    [][ /\ \A p \in Procs :
               (req[p].op = "list" /\ pc'[p] # pc[p]) =>
                   users' = users /\ entries' = entries
        /\ out'.req.op = "list" => users' = users /\ entries' = entries
        /\ (out'.req.op = "list" /\ out'.resp.status # 422
            /\ out'.resp.cause # "OperationalError") =>
               \A u \in RowsOfDevice(users, out'.req.device_id[1]) :
                   {e \in entries : e.user_id = u.user_id} = {} =>
                       /\ out'.resp.status = 200
                       /\ out'.resp.data = <<>> ]_vars

\* C12 witness: a list was answered 200 with the empty sequence for a
\* registered device while another user has an entry.
C12_Witness ==
    /\ out.req.op = "list"
    /\ out.resp.status = 200
    /\ out.resp.data = <<>>
    /\ RowsOfDevice(users, out.req.device_id[1]) # {}
    /\ entries # {}

\* C13: two list calls for one device_id that query the same stored rows are
\* answered with the same sequence, entries of equal entry_date included: a
\* list answered right after another, with no row changed in between, returns
\* what the other returned.
C13_TieOrderDeterministic ==
    [][ (/\ out.req.op = "list" /\ out.resp.status = 200
         /\ out'.req.op = "list" /\ out'.resp.status = 200
         /\ out'.req.device_id = out.req.device_id
         /\ users' = users /\ entries' = entries) =>
            out'.resp.data = out.resp.data ]_vars

HandlerStep(p) == pc[p] # "idle" /\ pc'[p] # pc[p]

\* The step ends with the store's failure.
Faulted == out' # NoOut /\ out'.resp.cause = "OperationalError"

\* The rows of the tables that belong to device d: its User rows and the
\* DiaryEntry rows of those users.
EntriesOfDevice(userRows, entryRows, d) ==
    {e \in entryRows : \E u \in RowsOfDevice(userRows, d) : u.user_id = e.user_id}

C16_OwnershipImmutable ==
    [][ /\ \A e \in entries' :
               Cardinality({u \in users' : u.user_id = e.user_id}) = 1
        /\ \A e1, e2 \in entries' : e1.entry_id = e2.entry_id => e1 = e2
        /\ \A e \in entries :
               \E e2 \in entries' :
                   /\ e2.entry_id = e.entry_id
                   /\ e2.user_id = e.user_id
                   /\ e2.entry_uuid = e.entry_uuid
        /\ users \subseteq users' ]_vars

\* C16 witness: an update carrying all five fields has succeeded, and the row
\* has the new content under its entry_id, its entry_uuid and an existing
\* owner.
C16_Witness ==
    /\ out.req.op = "update"
    /\ out.resp.status = 200
    /\ DOMAIN out.req.fields = FieldNames
    /\ \E e \in entries :
           /\ e.entry_id = out.resp.data.entry_id
           /\ e.entry_uuid = out.req.entry_uuid
           /\ ContentOf(e) = ContentB
           /\ e.updated_at > 0
           /\ \E u \in RowsOfDevice(users, out.req.device_id[1]) : u.user_id = e.user_id

C19_SessionReleased ==
    /\ [](\A p \in Procs : pc[p] = "idle" => p \notin sessions)
    /\ \A p \in Procs : (p \in sessions) ~> (p \notin sessions)

\* C19 witness: a create has just been answered 409 and its process holds no
\* session, while the other process holds the session of its request.
C19_Witness ==
    /\ out.req.op = "create"
    /\ out.resp.status = 409
    /\ out.proc \notin sessions
    /\ \E q \in Procs : q \in sessions /\ pc[q] # "idle"

\* C20: every stored DiaryEntry row has an entry_date, a mood_score and a
\* mood_percentage that are not null; an update of an existing entry of a
\* registered device whose body carries an explicit null for one of the three
\* is answered 500 "Update failed" and leaves every row as it was.
C20_RequiredNotNull ==
    [][ /\ \A e \in entries' : \A f \in RequiredFields : e[f] # None
        /\ (/\ out'.req.op = "update"
            /\ out'.resp.status # 422
            /\ \E f \in RequiredFields \cap DOMAIN out'.req.fields :
                   out'.req.fields[f] = None
            /\ \E u \in RowsOfDevice(users, out'.req.device_id[1]) :
                   RowsOfKey(entries, u.user_id, out'.req.entry_uuid) # {}) =>
               /\ out'.resp.status = 500
               /\ out'.resp.message = "Update failed"
               /\ entries' = entries
               /\ users' = users ]_vars

\* C20 witness: an update whose body is an explicit null for entry_date has
\* been answered 500, and the entry it named still has its entry_date.
C20_Witness ==
    /\ out.req.op = "update"
    /\ out.resp.status = 500
    /\ out.req.fields = [entry_date |-> None]
    /\ \E e \in entries :
           /\ e.entry_uuid = out.req.entry_uuid
           /\ e.entry_date # None

====
